---- MODULE Spec2Model ----
(***************************************************************************)
(* Aurora Monitor: the monitoring engine of monitor_service.py and         *)
(* ping_service.py, with discord_service.py as the alert sink.             *)
(*                                                                         *)
(* The program is a set of asyncio tasks on one event loop: a task runs    *)
(* without interruption from one await to the next.  `running` names the   *)
(* monitor task that holds the event loop (0: none); a task's steps        *)
(* between two awaits are taken with running = its index, and every other  *)
(* task waits.  Latencies are exact rationals <<numerator, denominator>>   *)
(* (the floats of the source, without their rounding).                     *)
(*                                                                         *)
(* The specifications of the monitor follow the tasks from their first     *)
(* step, as if start() had handed them to the event loop and were waiting  *)
(* in gather; SpecStart follows start() itself up to that point.           *)
(***************************************************************************)
EXTENDS Integers, Sequences, FiniteSets, TLC

VARIABLES
    ping_targets,        \* MonitorService.ping_targets: the configured list
    retry_attempts,      \* MonitorService.retry_attempts
    anomaly_count,       \* PingService.anomaly_count
    channel,             \* DiscordService.channel is set (TRUE) or None (FALSE)
    ping_history,        \* PingService.ping_history: target -> latencies, oldest first
    anomaly_counters,    \* PingService.anomaly_counters: target -> counter
    failed_targets,      \* MonitorService.failed_targets: target -> flagged Down
    latest_latency,      \* MonitorService.latest_latency: target -> latency
    shutdown_requested,  \* MonitorService.shutdown_requested
    alert_sent,          \* check_overall_health's local alert_sent
    pc,                  \* monitor task index -> position in monitor_target
    frame,               \* monitor task index -> its locals
    fpc,                 \* position of the check_overall_health task
    running,             \* the monitor task holding the event loop, 0 if none
    calls,               \* direct calls of the PingService methods made so far
    delivery,            \* what send_alert did with the last alert
    event,               \* the alert handed to the sink by the last step, or NoEvent
    cycles,              \* probe cycles started so far, by all monitor tasks
    budget,              \* probe cycles the run is followed for
    faults,              \* errors caught so far by the except clause of monitor_target
    avail,               \* target -> kind of its last down/recovered alert
    downInRun,           \* target -> down alerts in the current run of failed cycles
    streak,              \* target -> over-threshold samples in a row, 0 after an anomaly
    evalLog,             \* what the last check_anomaly call read and did
    fleetLog,            \* what the last fleet check read and did
    recorded,            \* target -> every latency ever appended to its history
    spc,                 \* position of MonitorService.start
    is_ready,            \* DiscordService.is_ready
    bot,                 \* state of the start_bot task
    spawned              \* state of the monitor_target and check_overall_health tasks

vars == <<ping_targets, retry_attempts, anomaly_count, channel, ping_history,
          anomaly_counters, failed_targets, latest_latency, shutdown_requested,
          alert_sent, pc, frame, fpc, running, calls, delivery, event, cycles, budget,
          faults, avail, downInRun, streak, evalLog, fleetLog, recorded,
          spc, is_ready, bot, spawned>>

----------------------------------------------------------------------------
(* Bounds of the model. *)

\* Probe cycles the monitor tasks may start in all.
MaxCycles == 4
\* ... in the runs checked for progress.
LiveCycles == 2
\* Direct calls a caller of the PingService methods may make.
MaxCalls == 4
\* Largest retry_attempts tried by the caller of ping_with_retry.
MaxRetry == 3
\* Probe cycles followed after a history of 10 samples of 20 ms.
RunCycles == 5
\* Probe cycles the four monitor tasks of a fleet may start in all.
FleetCycles == 4

(* Program constants. *)

\* deque(maxlen=100)
HistoryCapacity == 100
\* if len(history) < 10
MinSamples == 10
\* ANOMALY_THRESHOLD default
anomaly_threshold == 30
\* FAILURE_PERCENTAGE default
failure_percentage == 50

Targets == {"a", "b", "c", "d"}

----------------------------------------------------------------------------
(* Exact rationals. *)

\* An operator below hands its arguments to a function of its own, so that
\* each argument is evaluated once however often the body uses it.

RECURSIVE GCD(_, _)
GCD(m, n) ==
    LET of[p \in Nat \X Nat] ==
            IF p[2] = 0 THEN p[1] ELSE GCD(p[2], p[1] % p[2])
    IN  of[<<m, n>>]

Abs(x) == IF x < 0 THEN -x ELSE x

\* n/d in lowest terms, d > 0
Rat(n, d) ==
    LET of[p \in Int \X Int \X Nat] ==
            LET sign == IF p[2] < 0 THEN -1 ELSE 1
            IN  <<(sign * p[1]) \div p[3], (sign * p[2]) \div p[3]>>
        with[p \in Int \X Int] == of[<<p[1], p[2], GCD(Abs(p[1]), Abs(p[2]))>>]
    IN  with[<<n, d>>]

Zero == <<0, 1>>
RatOfInt(n) == <<n, 1>>

RatAdd(x, y) ==
    LET of[p \in (Int \X Int) \X (Int \X Int)] ==
            Rat(p[1][1] * p[2][2] + p[2][1] * p[1][2], p[1][2] * p[2][2])
    IN  of[<<x, y>>]

RatMul(x, y) ==
    LET of[p \in (Int \X Int) \X (Int \X Int)] ==
            Rat(p[1][1] * p[2][1], p[1][2] * p[2][2])
    IN  of[<<x, y>>]

RatDivInt(x, n) ==
    LET of[p \in (Int \X Int) \X Int] == Rat(p[1][1], p[1][2] * p[2])
    IN  of[<<x, n>>]

RatGT(x, y) ==
    LET of[p \in (Int \X Int) \X (Int \X Int)] ==
            p[1][1] * p[2][2] > p[2][1] * p[1][2]
    IN  of[<<x, y>>]

RatLE(x, y) == ~RatGT(x, y)

\* the sum of a sequence, by halves
RECURSIVE RatSum(_)
RatSum(s) ==
    LET of[q \in Seq(Int \X Int)] ==
            IF Len(q) = 0 THEN Zero
            ELSE IF Len(q) = 1 THEN q[1]
            ELSE RatAdd(RatSum(SubSeq(q, 1, Len(q) \div 2)),
                        RatSum(SubSeq(q, Len(q) \div 2 + 1, Len(q))))
    IN  of[s]

\* statistics.mean of a non-empty sequence
mean(s) ==
    LET of[q \in Seq(Int \X Int)] == RatDivInt(RatSum(q), Len(q))
    IN  of[s]

----------------------------------------------------------------------------
(* Dictionaries: a function whose domain is the set of keys present. *)

Get(d, k, default) == IF k \in DOMAIN d THEN d[k] ELSE default

\* d with d[k] = v, the key added when absent
Put(d, k, v) == [x \in DOMAIN d \cup {k} |-> IF x = k THEN v ELSE d[x]]

\* a defaultdict after d[k] was read: the key now exists
Touch(d, k, default) == Put(d, k, Get(d, k, default))

Empty == [x \in {} |-> 0]

----------------------------------------------------------------------------
(* PingService (ping_service.py). *)

\* Latencies a successful icmp_ping can measure, in ms.
Latencies == {10, 40}

\* icmp_ping returns (True, latency) or (False, 0.0); it catches every exception.
icmp_ping == [success : {TRUE}, latency : Latencies] \cup
             {[success |-> FALSE, latency |-> 0]}

\* The locals of one monitor_target iteration and of its ping_with_retry call;
\* outcomes is the list of the attempts' results (not a variable of the code).
IdleFrame ==
    [attempt |-> 0, failed_attempts |-> 0, total_latency |-> 0,
     successful_pings |-> 0, outcomes |-> <<>>, success |-> FALSE,
     latency |-> Zero, failures |-> 0, is_anomaly |-> FALSE, avg_latency |-> Zero]

\* ping_with_retry, one pass of the for loop with the attempt's result r
ping_attempt(f, r) ==
    [f EXCEPT !.total_latency = IF r.success THEN @ + r.latency ELSE @,
              !.successful_pings = IF r.success THEN @ + 1 ELSE @,
              !.failed_attempts = IF r.success THEN @ ELSE @ + 1,
              !.outcomes = Append(@, r)]

\* the latency total divided by the number of all attempts
ping_result_over_attempts(f) ==
    [f EXCEPT !.success = f.successful_pings > 0,
              !.latency = IF f.successful_pings > 0
                          THEN Rat(f.total_latency,
                                   f.successful_pings + f.failed_attempts)
                          ELSE Zero,
              !.failures = f.failed_attempts]

\* ping_with_retry, after the loop: (overall_success, avg_latency, failed_attempts)
ping_result(f) ==
    [f EXCEPT !.success = f.successful_pings > 0,
              !.latency = IF f.successful_pings > 0
                          THEN Rat(f.total_latency, f.successful_pings)
                          ELSE Zero,
              !.failures = f.failed_attempts]

\* an append to a list that never drops an entry
deque_append_unbounded(h, latency) == Append(h, latency)

\* deque(maxlen=100).append: a full deque drops its oldest entry
deque_append(h, latency) ==
    IF Len(h) >= HistoryCapacity THEN Append(Tail(h), latency)
    ELSE Append(h, latency)

\* add_to_history: the new ping_history
add_to_history(hist, target, latency) ==
    Put(hist, target, deque_append(Get(hist, target, <<>>), latency))

\* threshold = avg_latency * (1 + self.anomaly_threshold / 100)
threshold_of(avg_latency) ==
    RatMul(avg_latency, Rat(100 + anomaly_threshold, 100))

\* current_latency >= threshold
over_threshold_or_equal(current_latency, avg_latency) ==
    ~RatGT(threshold_of(avg_latency), current_latency)

\* current_latency > threshold
over_threshold(current_latency, avg_latency) ==
    RatGT(current_latency, threshold_of(avg_latency))

\* five samples are enough for an average
too_few_under_five(history) == Len(history) < 5

\* if len(history) < 10: too few samples for an average
too_few(history) == Len(history) < MinSamples

\* the counter has passed the configured count
reaches_count_late(counter, count) == counter > count

\* if self.anomaly_counters[target] >= self.anomaly_count:
reaches_count(counter, count) == counter >= count

\* check_anomaly: the new ping_history and anomaly_counters, and the pair returned
check_anomaly(hist, counters, count, target, current_latency) ==
    LET hist1 == Touch(hist, target, <<>>)
        history == hist1[target]
        avg == mean(history)
        bumped == Get(counters, target, 0) + 1
    IN  IF too_few(history)
        THEN [hist |-> hist1, counters |-> counters,
              is_anomaly |-> FALSE, avg_latency |-> Zero]
        ELSE IF over_threshold(current_latency, avg)
        THEN IF reaches_count(bumped, count)
             THEN [hist |-> hist1, counters |-> Put(counters, target, 0),
                   is_anomaly |-> TRUE, avg_latency |-> avg]
             ELSE [hist |-> hist1, counters |-> Put(counters, target, bumped),
                   is_anomaly |-> FALSE, avg_latency |-> avg]
        ELSE [hist |-> hist1, counters |-> Put(counters, target, 0),
              is_anomaly |-> FALSE, avg_latency |-> avg]

\* get_average_latency: the new ping_history and the mean returned
get_average_latency(hist, target) ==
    LET hist1 == Touch(hist, target, <<>>)
    IN  [hist |-> hist1,
         avg |-> IF Len(hist1[target]) = 0 THEN Zero ELSE mean(hist1[target])]

----------------------------------------------------------------------------
(* The state after construction, and the states a run of successful probe   *)
(* cycles leads to.                                                         *)

Tasks == 1..Len(ping_targets)

NoEvent == [kind |-> "none", target |-> "", a |-> Zero, b |-> Zero, n |-> 0]

NoEval ==
    [target |-> "", history |-> <<>>, current |-> Zero, had_key |-> FALSE,
     before |-> 0, has_key |-> FALSE, after |-> 0, run |-> 0,
     is_anomaly |-> FALSE, avg_latency |-> Zero]

NoCheck ==
    [done |-> FALSE, failed_count |-> 0, total |-> 0, was_active |-> FALSE,
     fired |-> FALSE, alerts |-> 0]

\* current_latency > M * (1 + T/100), M the mean of history and T the threshold
\* percent, without a division: current * n * 100 > sum * (100 + T)
Exceeds(current_latency, history) ==
    LET sum == RatSum(history)
    IN  current_latency[1] * sum[2] * Len(history) * 100
            > sum[1] * current_latency[2] * (100 + anomaly_threshold)

\* What a check_anomaly call read (the history, the counter and whether its key
\* existed, the run of over-threshold samples before it) and what it did.
EvalRecord(hist, counters, run, target, current_latency, r) ==
    [target |-> target, history |-> Get(hist, target, <<>>),
     current |-> current_latency, had_key |-> target \in DOMAIN counters,
     before |-> Get(counters, target, 0),
     has_key |-> target \in DOMAIN r.counters,
     after |-> Get(r.counters, target, 0), run |-> run,
     is_anomaly |-> r.is_anomaly, avg_latency |-> r.avg_latency]

\* The over-threshold samples in a row after a check_anomaly call that read
\* history and current_latency and returned is_anomaly: a sample at or below the
\* threshold and an anomaly both start a new run.
NextStreak(before, history, current_latency, is_anomaly) ==
    IF Len(history) < MinSamples THEN before
    ELSE IF ~Exceeds(current_latency, history) THEN 0
    ELSE IF is_anomaly THEN 0
    ELSE before + 1

\* ping_history, anomaly_counters and the run of over-threshold samples after
\* one more successful cycle that measured latency for target: what lines 69 and
\* 75 of monitor_target make of st.
ReplayOne(st, target, latency, count) ==
    LET hist1 == add_to_history(st.hist, target, latency)
        r == check_anomaly(hist1, st.counters, count, target, latency)
    IN  [hist |-> r.hist, counters |-> r.counters,
         streak |-> NextStreak(st.streak, hist1[target], latency, r.is_anomaly)]

\* ... after the successful cycles that measured samples, in this order (by
\* halves)
RECURSIVE ReplayFrom(_, _, _, _)
ReplayFrom(st, target, samples, count) ==
    IF Len(samples) = 0 THEN st
    ELSE IF Len(samples) = 1 THEN ReplayOne(st, target, samples[1], count)
    ELSE LET h == Len(samples) \div 2
         IN  ReplayFrom(ReplayFrom(st, target, SubSeq(samples, 1, h), count),
                        target, SubSeq(samples, h + 1, Len(samples)), count)

\* ... starting from the empty dictionaries of a new PingService
Replay(target, samples, count) ==
    ReplayFrom([hist |-> Empty, counters |-> Empty, streak |-> 0], target,
               samples, count)

\* n samples of 10 ms
Flat(n) == [k \in 1..n |-> RatOfInt(10)]

\* n samples, the k-th of k ms
Ramp(n) == [k \in 1..n |-> RatOfInt(k)]

\* The monitor of targets whose PingService holds hist and counters, each target
\* having recorded samples and being flagged Up.
InitState(targets, retry, count, chan, samples, hist, counters, run) ==
    LET keys == IF samples = <<>> THEN {} ELSE {targets[i] : i \in 1..Len(targets)}
    IN  /\ ping_targets = targets
        /\ retry_attempts = retry
        /\ anomaly_count = count
        /\ channel = chan
        /\ ping_history = hist
        /\ anomaly_counters = counters
        /\ failed_targets = [t \in keys |-> FALSE]
        /\ latest_latency = [t \in keys |-> samples[Len(samples)]]
        /\ shutdown_requested = FALSE
        /\ alert_sent = FALSE
        /\ pc = [i \in 1..Len(targets) |-> "start"]
        /\ frame = [i \in 1..Len(targets) |-> IdleFrame]
        /\ fpc = "start"
        /\ running = 0
        /\ calls = 0
        /\ delivery = "none"
        /\ event = NoEvent
        /\ cycles = 0
        /\ faults = 0
        /\ avail = [t \in Targets |-> "none"]
        /\ downInRun = [t \in Targets |-> 0]
        /\ streak = run
        /\ evalLog = NoEval
        /\ fleetLog = NoCheck
        /\ recorded = [t \in Targets |-> IF t \in keys THEN samples ELSE <<>>]

\* The monitor of targets, each target having completed Len(samples) successful
\* probe cycles and no failed one.
InitWith(targets, retry, count, chan, samples) ==
    LET keys == IF samples = <<>> THEN {} ELSE {targets[i] : i \in 1..Len(targets)}
        one == [t \in keys |-> Replay(t, samples, count)]
    IN  InitState(targets, retry, count, chan, samples,
                  [t \in keys |-> one[t].hist[t]],
                  [t \in {k \in keys : k \in DOMAIN one[k].counters} |->
                      one[t].counters[t]],
                  [t \in Targets |-> IF t \in keys THEN one[t].streak ELSE 0])

----------------------------------------------------------------------------
(* monitor_target (monitor_service.py, lines 57-111), task i of target      *)
(* ping_targets[i].                                                         *)

\* what start() holds: its position, the bot and the tasks it created
start_vars == <<spc, is_ready, bot, spawned>>

\* start() waits in gather, the bot connected and the tasks created
Started ==
    /\ spc = "gather"
    /\ is_ready = TRUE
    /\ bot = "ready"
    /\ spawned = "scheduled"

\* the configuration, the cycles the run is followed for and what start()
\* holds: not written by the tasks
unchanged_config ==
    UNCHANGED <<ping_targets, retry_attempts, anomaly_count, channel, budget,
                spc, is_ready, bot, spawned>>

\* the iteration of task i ends: asyncio.sleep(self.ping_interval), its locals dead
end_iteration(i) ==
    /\ pc' = [pc EXCEPT ![i] = "sleep"]
    /\ frame' = [frame EXCEPT ![i] = IdleFrame]

\* what only PingService and the record of its calls hold
ping_vars == <<ping_history, anomaly_counters, streak, evalLog, recorded>>

\* what only check_overall_health holds
fleet_vars == <<alert_sent, fpc, fleetLog>>

\* while not self.shutdown_requested: the flag is set, the task returns
MonitorExit(i) ==
    /\ pc[i] \in {"start", "sleep"}
    /\ running = 0
    /\ shutdown_requested
    /\ pc' = [pc EXCEPT ![i] = "done"]
    /\ event' = NoEvent
    /\ delivery' = "none"
    /\ unchanged_config
    /\ UNCHANGED <<ping_vars, fleet_vars, failed_targets, latest_latency,
                   shutdown_requested, frame, running, calls, faults, cycles, avail,
                   downInRun>>

\* a new iteration whatever the flag
MonitorLoop_unflagged(i) ==
    /\ pc[i] \in {"start", "sleep"}
    /\ running = 0
    /\ cycles < budget
    /\ pc' = [pc EXCEPT ![i] = "attempt"]
    /\ frame' = [frame EXCEPT ![i] = IdleFrame]
    /\ cycles' = cycles + 1
    /\ running' = i
    /\ event' = NoEvent
    /\ delivery' = "none"
    /\ unchanged_config
    /\ UNCHANGED <<ping_vars, fleet_vars, failed_targets, latest_latency,
                   shutdown_requested, calls, faults, avail, downInRun>>

\* while not self.shutdown_requested: a new iteration; ping_with_retry starts
MonitorLoop(i) ==
    /\ pc[i] \in {"start", "sleep"}
    /\ running = 0
    /\ ~shutdown_requested
    /\ cycles < budget
    /\ pc' = [pc EXCEPT ![i] = "attempt"]
    /\ frame' = [frame EXCEPT ![i] = IdleFrame]
    /\ cycles' = cycles + 1
    /\ running' = i
    /\ event' = NoEvent
    /\ delivery' = "none"
    /\ unchanged_config
    /\ UNCHANGED <<ping_vars, fleet_vars, failed_targets, latest_latency,
                   shutdown_requested, calls, faults, avail, downInRun>>

\* ... with the 0.5 s sleep after every attempt, the last one included
ProbeAttempt_always_waits(i) ==
    /\ pc[i] = "attempt"
    /\ running = i
    /\ IF frame[i].attempt >= retry_attempts
       THEN /\ pc' = [pc EXCEPT ![i] = "result"]
            /\ UNCHANGED <<frame, running>>
       ELSE \E r \in icmp_ping :
            /\ frame' = [frame EXCEPT ![i] = ping_attempt(@, r)]
            /\ pc' = [pc EXCEPT ![i] = "retrySleep"]
            /\ running' = 0
    /\ event' = NoEvent
    /\ delivery' = "none"
    /\ unchanged_config
    /\ UNCHANGED <<ping_vars, fleet_vars, failed_targets, latest_latency,
                   shutdown_requested, calls, faults, cycles, avail, downInRun>>

\* ping_with_retry, lines 84-98: one attempt, then the 0.5 s sleep or the end
\* of the loop (range(0) makes no attempt)
ProbeAttempt(i) ==
    /\ pc[i] = "attempt"
    /\ running = i
    /\ IF frame[i].attempt >= retry_attempts
       THEN /\ pc' = [pc EXCEPT ![i] = "result"]
            /\ UNCHANGED <<frame, running>>
       ELSE \E r \in icmp_ping :
            /\ frame' = [frame EXCEPT ![i] = ping_attempt(@, r)]
            /\ IF frame[i].attempt < retry_attempts - 1
               THEN pc' = [pc EXCEPT ![i] = "retrySleep"] /\ running' = 0
               ELSE pc' = [pc EXCEPT ![i] = "result"] /\ UNCHANGED running
    /\ event' = NoEvent
    /\ delivery' = "none"
    /\ unchanged_config
    /\ UNCHANGED <<ping_vars, fleet_vars, failed_targets, latest_latency,
                   shutdown_requested, calls, faults, cycles, avail, downInRun>>

\* await asyncio.sleep(0.5) returns: the next pass of the for loop
RetryWake(i) ==
    /\ pc[i] = "retrySleep"
    /\ running = 0
    /\ pc' = [pc EXCEPT ![i] = "attempt"]
    /\ frame' = [frame EXCEPT ![i].attempt = @ + 1]
    /\ running' = i
    /\ event' = NoEvent
    /\ delivery' = "none"
    /\ unchanged_config
    /\ UNCHANGED <<ping_vars, fleet_vars, failed_targets, latest_latency,
                   shutdown_requested, calls, faults, cycles, avail, downInRun>>

\* ping_with_retry returns; the latency is recorded whatever the result
PingResult_records_always(i) ==
    /\ pc[i] = "result"
    /\ running = i
    /\ frame' = [frame EXCEPT ![i] = ping_result(@)]
    /\ pc' = [pc EXCEPT ![i] = "record"]
    /\ downInRun' = IF frame'[i].success
                    THEN [downInRun EXCEPT ![ping_targets[i]] = 0]
                    ELSE downInRun
    /\ event' = NoEvent
    /\ delivery' = "none"
    /\ unchanged_config
    /\ UNCHANGED <<ping_vars, fleet_vars, failed_targets, latest_latency,
                   shutdown_requested, running, calls, faults, cycles, avail>>

\* ping_with_retry returns (lines 100-103); if success: (line 67)
PingResult(i) ==
    /\ pc[i] = "result"
    /\ running = i
    /\ frame' = [frame EXCEPT ![i] = ping_result(@)]
    /\ pc' = [pc EXCEPT ![i] = IF frame'[i].success THEN "record" ELSE "checkDown"]
    /\ downInRun' = IF frame'[i].success
                    THEN [downInRun EXCEPT ![ping_targets[i]] = 0]
                    ELSE downInRun
    /\ event' = NoEvent
    /\ delivery' = "none"
    /\ unchanged_config
    /\ UNCHANGED <<ping_vars, fleet_vars, failed_targets, latest_latency,
                   shutdown_requested, running, calls, faults, cycles, avail>>

\* add_to_history(target, latency); latest_latency[target] = latency
RecordLatency(i) ==
    /\ pc[i] = "record"
    /\ running = i
    /\ ping_history' = add_to_history(ping_history, ping_targets[i], frame[i].latency)
    /\ recorded' = [recorded EXCEPT ![ping_targets[i]] = Append(@, frame[i].latency)]
    /\ latest_latency' = Put(latest_latency, ping_targets[i], frame[i].latency)
    /\ pc' = [pc EXCEPT ![i] = "evaluate"]
    /\ event' = NoEvent
    /\ delivery' = "none"
    /\ unchanged_config
    /\ UNCHANGED <<anomaly_counters, streak, evalLog, fleet_vars, failed_targets,
                   shutdown_requested, frame, running, calls, faults, cycles, avail,
                   downInRun>>

\* is_anomaly, avg_latency = check_anomaly(target, latency); if is_anomaly:
Evaluate(i) ==
    /\ pc[i] = "evaluate"
    /\ running = i
    /\ LET t == ping_targets[i]
           r == check_anomaly(ping_history, anomaly_counters, anomaly_count, t,
                              frame[i].latency)
       IN  /\ ping_history' = r.hist
           /\ anomaly_counters' = r.counters
           /\ frame' = [frame EXCEPT ![i].is_anomaly = r.is_anomaly,
                                     ![i].avg_latency = r.avg_latency]
           /\ evalLog' = EvalRecord(ping_history, anomaly_counters, streak[t], t,
                                    frame[i].latency, r)
           /\ streak' = [streak EXCEPT ![t] =
                            NextStreak(@, Get(ping_history, t, <<>>),
                                       frame[i].latency, r.is_anomaly)]
           /\ pc' = [pc EXCEPT ![i] = IF r.is_anomaly THEN "anomalyAlert"
                                      ELSE "checkRecovered"]
    /\ event' = NoEvent
    /\ delivery' = "none"
    /\ unchanged_config
    /\ UNCHANGED <<recorded, fleet_vars, failed_targets, latest_latency,
                   shutdown_requested, running, calls, faults, cycles, avail,
                   downInRun>>

\* send_anomaly_alert with consecutive_count = the counter of the target
AnomalyAlert_counter(i) ==
    /\ pc[i] = "anomalyAlert"
    /\ running = i
    /\ event' = [kind |-> "anomaly", target |-> ping_targets[i],
                 a |-> frame[i].latency, b |-> frame[i].avg_latency,
                 n |-> Get(anomaly_counters, ping_targets[i], 0)]
    /\ IF channel
       THEN pc' = [pc EXCEPT ![i] = "anomalySend"] /\ running' = 0
                /\ delivery' = "none"
       ELSE pc' = [pc EXCEPT ![i] = "checkRecovered"] /\ UNCHANGED running
                /\ delivery' = "dropped"
    /\ unchanged_config
    /\ UNCHANGED <<ping_vars, fleet_vars, failed_targets, latest_latency,
                   shutdown_requested, frame, calls, faults, cycles, avail, downInRun>>

\* send_anomaly_alert (lines 77-84): send_alert returns at once without a
\* channel, and otherwise awaits channel.send
AnomalyAlert(i) ==
    /\ pc[i] = "anomalyAlert"
    /\ running = i
    /\ event' = [kind |-> "anomaly", target |-> ping_targets[i],
                 a |-> frame[i].latency, b |-> frame[i].avg_latency,
                 n |-> anomaly_count]
    /\ IF channel
       THEN pc' = [pc EXCEPT ![i] = "anomalySend"] /\ running' = 0
                /\ delivery' = "none"
       ELSE pc' = [pc EXCEPT ![i] = "checkRecovered"] /\ UNCHANGED running
                /\ delivery' = "dropped"
    /\ unchanged_config
    /\ UNCHANGED <<ping_vars, fleet_vars, failed_targets, latest_latency,
                   shutdown_requested, frame, calls, faults, cycles, avail, downInRun>>

\* channel.send returns or raises; send_alert swallows the error
AnomalySent(i) ==
    /\ pc[i] = "anomalySend"
    /\ running = 0
    /\ \E ok \in BOOLEAN : delivery' = IF ok THEN "delivered" ELSE "failed"
    /\ pc' = [pc EXCEPT ![i] = "checkRecovered"]
    /\ running' = i
    /\ event' = NoEvent
    /\ unchanged_config
    /\ UNCHANGED <<ping_vars, fleet_vars, failed_targets, latest_latency,
                   shutdown_requested, frame, calls, faults, cycles, avail, downInRun>>

\* if self.failed_targets[target]: (line 87; reading the defaultdict adds the
\* key); when not flagged, the iteration ends in asyncio.sleep(ping_interval)
CheckRecovered(i) ==
    LET t == ping_targets[i]
    IN  /\ pc[i] = "checkRecovered"
        /\ running = i
        /\ failed_targets' = Touch(failed_targets, t, FALSE)
        /\ IF Get(failed_targets, t, FALSE)
           THEN pc' = [pc EXCEPT ![i] = "recoveredAlert"] /\ UNCHANGED <<frame, running>>
           ELSE end_iteration(i) /\ running' = 0
        /\ event' = NoEvent
        /\ delivery' = "none"
        /\ unchanged_config
        /\ UNCHANGED <<ping_vars, fleet_vars, latest_latency, shutdown_requested,
                       calls, faults, cycles, avail, downInRun>>

\* send_target_recovered_alert (lines 88-92); without a channel the flag is
\* cleared (line 93) before any other task runs
RecoveredAlert(i) ==
    LET t == ping_targets[i]
    IN  /\ pc[i] = "recoveredAlert"
        /\ running = i
        /\ event' = [kind |-> "recovered", target |-> t, a |-> frame[i].latency,
                     b |-> Zero, n |-> 0]
        /\ avail' = [avail EXCEPT ![t] = "recovered"]
        /\ IF channel
           THEN /\ pc' = [pc EXCEPT ![i] = "recoveredSend"]
                /\ delivery' = "none"
                /\ UNCHANGED <<failed_targets, frame>>
           ELSE /\ end_iteration(i)
                /\ delivery' = "dropped"
                /\ failed_targets' = Put(failed_targets, t, FALSE)
        /\ running' = 0
        /\ unchanged_config
        /\ UNCHANGED <<ping_vars, fleet_vars, latest_latency, shutdown_requested,
                       calls, faults, cycles, downInRun>>

\* channel.send returns or raises (swallowed); self.failed_targets[target] = False
RecoveredSent(i) ==
    /\ pc[i] = "recoveredSend"
    /\ running = 0
    /\ \E ok \in BOOLEAN : delivery' = IF ok THEN "delivered" ELSE "failed"
    /\ failed_targets' = Put(failed_targets, ping_targets[i], FALSE)
    /\ end_iteration(i)
    /\ event' = NoEvent
    /\ unchanged_config
    /\ UNCHANGED <<ping_vars, fleet_vars, latest_latency, shutdown_requested,
                   running, calls, faults, cycles, avail, downInRun>>

\* if not self.failed_targets[target]: (line 98); when already flagged, the
\* iteration ends in asyncio.sleep(ping_interval)
CheckDown(i) ==
    LET t == ping_targets[i]
    IN  /\ pc[i] = "checkDown"
        /\ running = i
        /\ failed_targets' = Touch(failed_targets, t, FALSE)
        /\ IF ~Get(failed_targets, t, FALSE)
           THEN pc' = [pc EXCEPT ![i] = "downAlert"] /\ UNCHANGED <<frame, running>>
           ELSE end_iteration(i) /\ running' = 0
        /\ event' = NoEvent
        /\ delivery' = "none"
        /\ unchanged_config
        /\ UNCHANGED <<ping_vars, fleet_vars, latest_latency, shutdown_requested,
                       calls, faults, cycles, avail, downInRun>>

\* send_target_down_alert (lines 99-103); without a channel the flag is set
\* (line 104) before any other task runs
DownAlert(i) ==
    LET t == ping_targets[i]
    IN  /\ pc[i] = "downAlert"
        /\ running = i
        /\ event' = [kind |-> "down", target |-> t, a |-> Zero, b |-> Zero,
                     n |-> frame[i].failures]
        /\ avail' = [avail EXCEPT ![t] = "down"]
        /\ downInRun' = [downInRun EXCEPT ![t] = @ + 1]
        /\ IF channel
           THEN /\ pc' = [pc EXCEPT ![i] = "downSend"]
                /\ delivery' = "none"
                /\ UNCHANGED <<failed_targets, frame>>
           ELSE /\ end_iteration(i)
                /\ delivery' = "dropped"
                /\ failed_targets' = Put(failed_targets, t, TRUE)
        /\ running' = 0
        /\ unchanged_config
        /\ UNCHANGED <<ping_vars, fleet_vars, latest_latency, shutdown_requested,
                       calls, faults, cycles>>

\* channel.send returns or raises; the flag is set only after a delivery
DownSent_if_delivered(i) ==
    /\ pc[i] = "downSend"
    /\ running = 0
    /\ \E ok \in BOOLEAN :
          /\ delivery' = IF ok THEN "delivered" ELSE "failed"
          /\ failed_targets' = IF ok THEN Put(failed_targets, ping_targets[i], TRUE)
                                ELSE failed_targets
    /\ end_iteration(i)
    /\ event' = NoEvent
    /\ unchanged_config
    /\ UNCHANGED <<ping_vars, fleet_vars, latest_latency, shutdown_requested,
                   running, calls, faults, cycles, avail, downInRun>>

\* channel.send returns or raises (swallowed); self.failed_targets[target] = True
DownSent(i) ==
    /\ pc[i] = "downSend"
    /\ running = 0
    /\ \E ok \in BOOLEAN : delivery' = IF ok THEN "delivered" ELSE "failed"
    /\ failed_targets' = Put(failed_targets, ping_targets[i], TRUE)
    /\ end_iteration(i)
    /\ event' = NoEvent
    /\ unchanged_config
    /\ UNCHANGED <<ping_vars, fleet_vars, latest_latency, shutdown_requested,
                   running, calls, faults, cycles, avail, downInRun>>

\* an exception that leaves monitor_target: the task is over
Raise_fatal(i) ==
    /\ running = i
    /\ pc[i] \in {"attempt", "result", "record", "evaluate", "anomalyAlert",
                  "checkRecovered", "recoveredAlert", "checkDown", "downAlert"}
    /\ pc' = [pc EXCEPT ![i] = "done"]
    /\ frame' = [frame EXCEPT ![i] = IdleFrame]
    /\ running' = 0
    /\ faults' = faults + 1
    /\ event' = NoEvent
    /\ delivery' = "none"
    /\ unchanged_config
    /\ UNCHANGED <<ping_vars, fleet_vars, failed_targets, latest_latency,
                   shutdown_requested, calls, cycles, avail, downInRun>>

\* except Exception as e: (lines 108-109): an error raised by the statement the
\* task is at ends the iteration in asyncio.sleep(ping_interval)
Raise(i) ==
    /\ running = i
    /\ pc[i] \in {"attempt", "result", "record", "evaluate", "anomalyAlert",
                  "checkRecovered", "recoveredAlert", "checkDown", "downAlert"}
    /\ end_iteration(i)
    /\ running' = 0
    /\ faults' = faults + 1
    /\ event' = NoEvent
    /\ delivery' = "none"
    /\ unchanged_config
    /\ UNCHANGED <<ping_vars, fleet_vars, failed_targets, latest_latency,
                   shutdown_requested, calls, cycles, avail, downInRun>>

----------------------------------------------------------------------------
(* check_overall_health (monitor_service.py, lines 113-137). *)

\* len(self.failed_targets): the keys, whatever their values
failed_count_keys == Cardinality(DOMAIN failed_targets)

\* sum(1 for failed in self.failed_targets.values() if failed)
failed_count == Cardinality({t \in DOMAIN failed_targets : failed_targets[t]})

\* (failed_count / total_targets) * 100
failure_rate(failed, total) == Rat(failed * 100, total)

\* failure_rate > self.failure_percentage
at_or_above_strict(rate) == RatGT(rate, RatOfInt(failure_percentage))

\* failure_rate >= self.failure_percentage
at_or_above(rate) == ~RatGT(RatOfInt(failure_percentage), rate)

\* while not self.shutdown_requested: at the top of the loop
fleet_loop == IF shutdown_requested THEN "done" ELSE "sleep"

\* the task starts: the loop condition, then asyncio.sleep(30)
FleetStart ==
    /\ fpc = "start"
    /\ running = 0
    /\ fpc' = fleet_loop
    /\ event' = NoEvent
    /\ delivery' = "none"
    /\ unchanged_config
    /\ UNCHANGED <<ping_vars, alert_sent, fleetLog, failed_targets, latest_latency,
                   shutdown_requested, pc, frame, running, calls, faults, cycles, avail,
                   downInRun>>

\* asyncio.sleep(30) returns: one check (lines 120-137), up to the await of
\* channel.send or to the next asyncio.sleep(30)
FleetCheck ==
    LET total_targets == Len(ping_targets)
        rate == failure_rate(failed_count, total_targets)
        fire == at_or_above(rate) /\ ~alert_sent
    IN  /\ fpc = "sleep"
        /\ running = 0
        /\ IF total_targets = 0
           THEN /\ fpc' = fleet_loop
                /\ event' = NoEvent
                /\ delivery' = "none"
                /\ UNCHANGED <<alert_sent, fleetLog>>
           ELSE /\ fleetLog' = [done |-> TRUE, failed_count |-> failed_count,
                                total |-> total_targets,
                                was_active |-> alert_sent, fired |-> fire,
                                alerts |-> fleetLog.alerts + IF fire THEN 1 ELSE 0]
                /\ IF fire
                   THEN /\ event' = [kind |-> "critical", target |-> "",
                                     a |-> RatOfInt(total_targets), b |-> rate,
                                     n |-> failed_count]
                        /\ IF channel
                           THEN /\ fpc' = "send"
                                /\ delivery' = "none"
                                /\ UNCHANGED alert_sent
                           ELSE /\ fpc' = fleet_loop
                                /\ delivery' = "dropped"
                                /\ alert_sent' = TRUE
                   ELSE /\ event' = NoEvent
                        /\ delivery' = "none"
                        /\ fpc' = fleet_loop
                        /\ alert_sent' = IF at_or_above(rate) THEN alert_sent
                                         ELSE FALSE
        /\ unchanged_config
        /\ UNCHANGED <<ping_vars, failed_targets, latest_latency,
                       shutdown_requested, pc, frame, running, calls, faults, cycles,
                       avail, downInRun>>

\* channel.send returns or raises; the loop goes on with alert_sent as it was
CriticalSent_unset ==
    /\ fpc = "send"
    /\ running = 0
    /\ \E ok \in BOOLEAN : delivery' = IF ok THEN "delivered" ELSE "failed"
    /\ fpc' = fleet_loop
    /\ event' = NoEvent
    /\ unchanged_config
    /\ UNCHANGED <<ping_vars, alert_sent, fleetLog, failed_targets, latest_latency,
                   shutdown_requested, pc, frame, running, calls, faults, cycles, avail,
                   downInRun>>

\* channel.send returns or raises (swallowed); alert_sent = True; the loop
\* condition, then asyncio.sleep(30)
CriticalSent ==
    /\ fpc = "send"
    /\ running = 0
    /\ \E ok \in BOOLEAN : delivery' = IF ok THEN "delivered" ELSE "failed"
    /\ alert_sent' = TRUE
    /\ fpc' = fleet_loop
    /\ event' = NoEvent
    /\ unchanged_config
    /\ UNCHANGED <<ping_vars, fleetLog, failed_targets, latest_latency,
                   shutdown_requested, pc, frame, running, calls, faults, cycles, avail,
                   downInRun>>

----------------------------------------------------------------------------
(* request_shutdown and get_latency_statistics. *)

\* request_shutdown (lines 166-169); nothing in the code calls it, so it may
\* come at any moment
RequestShutdown ==
    /\ ~shutdown_requested
    /\ shutdown_requested' = TRUE
    /\ event' = NoEvent
    /\ delivery' = "none"
    /\ unchanged_config
    /\ UNCHANGED <<ping_vars, fleet_vars, failed_targets, latest_latency, pc,
                   frame, running, calls, faults, cycles, avail, downInRun>>

\* ping_history after get_average_latency was called for the first n targets
RECURSIVE history_after_statistics(_, _)
history_after_statistics(hist, n) ==
    IF n = 0 THEN hist
    ELSE get_average_latency(history_after_statistics(hist, n - 1),
                             ping_targets[n]).hist

\* get_latency_statistics (lines 139-164): the dictionary returned
get_latency_statistics ==
    LET info(k) ==
            [target |-> ping_targets[k],
             status |-> IF Get(failed_targets, ping_targets[k], FALSE)
                        THEN "offline" ELSE "online",
             current_ms |-> Get(latest_latency, ping_targets[k], Zero),
             avg_ms |-> get_average_latency(ping_history, ping_targets[k]).avg]
        targets == [k \in 1..Len(ping_targets) |-> info(k)]
    IN  [targets |-> targets,
         online_count |->
             Cardinality({k \in 1..Len(ping_targets) : targets[k].status = "online"}),
         total_count |-> Len(ping_targets)]

\* the !ms command calls get_latency_statistics, between two steps of the tasks
GetStatistics ==
    /\ running = 0
    /\ ping_history' = history_after_statistics(ping_history, Len(ping_targets))
    /\ event' = NoEvent
    /\ delivery' = "none"
    /\ unchanged_config
    /\ UNCHANGED <<anomaly_counters, streak, evalLog, recorded, fleet_vars,
                   failed_targets, latest_latency, shutdown_requested, pc, frame,
                   running, calls, faults, cycles, avail, downInRun>>

----------------------------------------------------------------------------
(* The monitor: its tasks, the shutdown request and the statistics query. *)

Next ==
    \/ \E i \in Tasks : MonitorExit(i)
    \/ \E i \in Tasks : MonitorLoop(i)
    \/ \E i \in Tasks : ProbeAttempt(i)
    \/ \E i \in Tasks : RetryWake(i)
    \/ \E i \in Tasks : PingResult(i)
    \/ \E i \in Tasks : RecordLatency(i)
    \/ \E i \in Tasks : Evaluate(i)
    \/ \E i \in Tasks : AnomalyAlert(i)
    \/ \E i \in Tasks : AnomalySent(i)
    \/ \E i \in Tasks : CheckRecovered(i)
    \/ \E i \in Tasks : RecoveredAlert(i)
    \/ \E i \in Tasks : RecoveredSent(i)
    \/ \E i \in Tasks : CheckDown(i)
    \/ \E i \in Tasks : DownAlert(i)
    \/ \E i \in Tasks : DownSent(i)
    \/ FleetStart
    \/ FleetCheck
    \/ CriticalSent
    \/ RequestShutdown
    \/ GetStatistics

\* One target probed twice per cycle, after a cold start or after 8 successful
\* cycles of 10 ms; or two targets probed once per cycle after a cold start; or
\* PING_TARGETS naming the same target twice, or naming none (the list is
\* taken as it is split, lines 19-27).  An anomaly takes a single
\* over-threshold sample.
Init ==
    /\ \E chan \in BOOLEAN :
          \/ \E samples \in {<<>>, Flat(8)} : InitWith(<<"a">>, 2, 1, chan, samples)
          \/ InitWith(<<"a", "b">>, 1, 1, chan, <<>>)
          \/ InitWith(<<"a", "a">>, 1, 1, chan, <<>>)
          \/ InitWith(<<>>, 1, 1, chan, <<>>)
    /\ budget = MaxCycles
    /\ Started

Spec == Init /\ [][Next]_vars

----------------------------------------------------------------------------
(* The monitor under the scheduling of the asyncio event loop: a task that  *)
(* can run, and a sleep or a send that is over, gets its turn.              *)

\* a step of task i that raises nothing
MonitorStep(i) ==
    /\ i \in Tasks
    /\ \/ MonitorExit(i)
       \/ MonitorLoop(i)
       \/ ProbeAttempt(i)
       \/ RetryWake(i)
       \/ PingResult(i)
       \/ RecordLatency(i)
       \/ Evaluate(i)
       \/ AnomalyAlert(i)
       \/ AnomalySent(i)
       \/ CheckRecovered(i)
       \/ RecoveredAlert(i)
       \/ RecoveredSent(i)
       \/ CheckDown(i)
       \/ DownAlert(i)
       \/ DownSent(i)

FleetStep == FleetStart \/ FleetCheck \/ CriticalSent

Fairness ==
    /\ \A i \in 1..Cardinality(Targets) : WF_vars(MonitorStep(i))
    /\ WF_vars(FleetStep)

\* One target probed twice per cycle after 9 successful cycles of 10 ms, or two
\* targets probed once per cycle after a cold start.
InitLive ==
    /\ \/ InitWith(<<"a">>, 2, 1, TRUE, Flat(9))
       \/ InitWith(<<"a", "b">>, 1, 1, FALSE, <<>>)
    /\ budget = LiveCycles
    /\ Started

FairSpec == InitLive /\ [][Next]_vars /\ Fairness

\* ... with steps that raise
NextFault == Next \/ \E i \in Tasks : Raise(i)

FairSpecFault == InitLive /\ [][NextFault]_vars /\ Fairness

----------------------------------------------------------------------------
(* PingService called directly: any sequence of add_to_history and          *)
(* check_anomaly calls for one target.                                      *)

\* Latencies the caller passes, in ms.
CallLatencies == {10, 13, 14}

\* add_to_history(target, latency)
CallAddToHistory ==
    /\ calls < MaxCalls
    /\ \E latency \in CallLatencies :
          /\ ping_history' = add_to_history(ping_history, ping_targets[1],
                                            RatOfInt(latency))
          /\ recorded' = [recorded EXCEPT ![ping_targets[1]] =
                             Append(@, RatOfInt(latency))]
    /\ calls' = calls + 1
    /\ unchanged_config
    /\ UNCHANGED <<anomaly_counters, streak, evalLog, fleet_vars, failed_targets,
                   latest_latency, shutdown_requested, pc, frame, running,
                   delivery, event, cycles, faults, avail, downInRun>>

\* check_anomaly(target, current_latency)
CallCheckAnomaly ==
    /\ calls < MaxCalls
    /\ \E latency \in CallLatencies :
          LET t == ping_targets[1]
              r == check_anomaly(ping_history, anomaly_counters, anomaly_count, t,
                                 RatOfInt(latency))
          IN  /\ ping_history' = r.hist
              /\ anomaly_counters' = r.counters
              /\ evalLog' = EvalRecord(ping_history, anomaly_counters, streak[t],
                                       t, RatOfInt(latency), r)
              /\ streak' = [streak EXCEPT ![t] =
                               NextStreak(@, Get(ping_history, t, <<>>),
                                          RatOfInt(latency), r.is_anomaly)]
    /\ calls' = calls + 1
    /\ unchanged_config
    /\ UNCHANGED <<recorded, fleet_vars, failed_targets, latest_latency,
                   shutdown_requested, pc, frame, running, delivery, event,
                   cycles, faults, avail, downInRun>>

NextPing == CallAddToHistory \/ CallCheckAnomaly

\* A PingService with anomaly_count 1, 2 or 3 that is new, or that
\* add_to_history has given 9 or 10 samples of 10 ms, or the 99 samples 1, 2,
\* ..., 99 ms, check_anomaly not called yet.
InitPing ==
    /\ \E count \in 1..3, samples \in {<<>>, Flat(9), Flat(10), Ramp(99)} :
          InitState(<<"a">>, 0, count, FALSE, samples,
                    IF samples = <<>> THEN Empty ELSE [t \in {"a"} |-> samples],
                    Empty, [t \in Targets |-> 0])
    /\ budget = 0
    /\ Started

SpecPing == InitPing /\ [][NextPing]_vars

----------------------------------------------------------------------------
(* ping_with_retry called once, for every retry_attempts from 0 to MaxRetry. *)

NextProbe ==
    \/ \E i \in Tasks : MonitorLoop(i)
    \/ \E i \in Tasks : ProbeAttempt(i)
    \/ \E i \in Tasks : RetryWake(i)
    \/ \E i \in Tasks : PingResult(i)

InitProbe ==
    /\ \E retry \in 0..MaxRetry : InitWith(<<"a">>, retry, 1, FALSE, <<>>)
    /\ budget = 1
    /\ Started

SpecProbe == InitProbe /\ [][NextProbe]_vars

----------------------------------------------------------------------------
(* start (monitor_service.py, lines 171-212), run by asyncio.run (bot.py,   *)
(* line 25), with the start_bot task of discord_service.py.                *)

\* async def send_startup_alert(self, icmp_count, dns_count, interval)
startup_parameters == {"icmp_count", "dns_count", "interval"}

\* send_startup_alert(target_count=..., interval=...)
startup_keywords == {"target_count", "interval"}

\* a call binds when every keyword names a parameter and every parameter
\* (none has a default) is given
binds(keywords, parameters) ==
    /\ keywords \subseteq parameters
    /\ parameters \subseteq keywords

\* asyncio.create_task(start_bot()), then wait_until_ready finds is_ready
\* False and sleeps
StartBot ==
    /\ spc = "start"
    /\ spc' = "waitReady"
    /\ bot' = "connecting"
    /\ event' = NoEvent
    /\ UNCHANGED <<ping_targets, retry_attempts, anomaly_count, channel, budget,
                   is_ready, spawned, failed_targets, latest_latency,
                   shutdown_requested, pc, frame, running, calls, delivery, cycles,
                   faults, avail, downInRun>>
    /\ UNCHANGED <<ping_vars, fleet_vars>>

\* on_ready: the channel is found or not, is_ready is set
OnReady ==
    /\ bot = "connecting"
    /\ bot' = "ready"
    /\ \E found \in BOOLEAN : channel' = found
    /\ is_ready' = TRUE
    /\ event' = NoEvent
    /\ UNCHANGED <<ping_targets, retry_attempts, anomaly_count, budget,
                   spc, spawned, failed_targets, latest_latency,
                   shutdown_requested, pc, frame, running, calls, delivery, cycles,
                   faults, avail, downInRun>>
    /\ UNCHANGED <<ping_vars, fleet_vars>>

\* start_bot: bot.start raises, the error is logged and the task returns
StartBotFails ==
    /\ bot = "connecting"
    /\ bot' = "failed"
    /\ event' = NoEvent
    /\ UNCHANGED <<ping_targets, retry_attempts, anomaly_count, channel, budget,
                   spc, is_ready, spawned, failed_targets, latest_latency,
                   shutdown_requested, pc, frame, running, calls, delivery, cycles,
                   faults, avail, downInRun>>
    /\ UNCHANGED <<ping_vars, fleet_vars>>

\* wait_until_ready returns; the tasks are created and, with no await in
\* between, send_startup_alert is called.  A call that binds hands the startup
\* event to send_alert; one that does not raises TypeError out of start(),
\* and asyncio.run cancels the tasks, none of which has taken a step.
StartTasks ==
    /\ spc = "waitReady"
    /\ is_ready
    /\ IF binds(startup_keywords, startup_parameters)
          THEN /\ spawned' = "scheduled"
               /\ event' = [NoEvent EXCEPT !.kind = "startup",
                                           !.n = Len(ping_targets)]
               /\ delivery' = IF channel THEN "sending" ELSE "dropped"
               /\ spc' = IF channel THEN "startupSend" ELSE "gather"
          ELSE /\ spawned' = "cancelled"
               /\ event' = NoEvent
               /\ spc' = "raised"
               /\ UNCHANGED delivery
    /\ UNCHANGED <<ping_targets, retry_attempts, anomaly_count, channel, budget,
                   is_ready, bot, failed_targets, latest_latency,
                   shutdown_requested, pc, frame, running, calls, cycles,
                   faults, avail, downInRun>>
    /\ UNCHANGED <<ping_vars, fleet_vars>>

NextStart ==
    \/ StartBot
    \/ OnReady
    \/ StartBotFails
    \/ StartTasks

\* A new MonitorService, for every configured list of at most two targets,
\* before bot.py runs start().
InitStart ==
    /\ \E targets \in {<<>>, <<"a">>, <<"a", "b">>, <<"a", "a">>},
          retry \in 1..MaxRetry, count \in 1..3 :
          InitWith(targets, retry, count, FALSE, <<>>)
    /\ budget = MaxCycles
    /\ spc = "start"
    /\ is_ready = FALSE
    /\ bot = "none"
    /\ spawned = "none"

SpecStart == InitStart /\ [][NextStart]_vars

\* start() under the scheduling of the event loop: start() runs when it can
\* (wait_until_ready polls is_ready every 0.1 s), and bot.start either
\* reaches on_ready or raises.
FairSpecStart ==
    /\ InitStart
    /\ [][NextStart]_vars
    /\ WF_vars(StartBot)
    /\ WF_vars(StartTasks)
    /\ WF_vars(OnReady \/ StartBotFails)

----------------------------------------------------------------------------
(* One target with ANOMALY_COUNT 5 (the default, line 23) whose history     *)
(* holds 10 samples of 20 ms, probed twice per cycle for RunCycles cycles.  *)

\* n samples of 20 ms
Twenty(n) == [k \in 1..n |-> RatOfInt(20)]

\* n samples of 40 ms
Forty(n) == [k \in 1..n |-> RatOfInt(40)]

InitRun ==
    /\ \E chan \in BOOLEAN : InitWith(<<"a">>, 2, 5, chan, Twenty(10))
    /\ budget = RunCycles
    /\ Started

SpecRun == InitRun /\ [][Next]_vars

----------------------------------------------------------------------------
(* Four targets probed once per cycle after a cold start, and the fleet     *)
(* check; no shutdown request and no statistics query.                      *)

NextFleet ==
    \/ \E i \in Tasks : MonitorLoop(i)
    \/ \E i \in Tasks : ProbeAttempt(i)
    \/ \E i \in Tasks : PingResult(i)
    \/ \E i \in Tasks : RecordLatency(i)
    \/ \E i \in Tasks : Evaluate(i)
    \/ \E i \in Tasks : CheckRecovered(i)
    \/ \E i \in Tasks : RecoveredAlert(i)
    \/ \E i \in Tasks : RecoveredSent(i)
    \/ \E i \in Tasks : CheckDown(i)
    \/ \E i \in Tasks : DownAlert(i)
    \/ \E i \in Tasks : DownSent(i)
    \/ FleetStart
    \/ FleetCheck
    \/ CriticalSent

InitFleet ==
    /\ \E chan \in BOOLEAN : InitWith(<<"a", "b", "c", "d">>, 1, 1, chan, <<>>)
    /\ budget = FleetCycles
    /\ Started

SpecFleet == InitFleet /\ [][NextFleet]_vars

----------------------------------------------------------------------------
(* Down and recovered alerts. *)

\* The task of target t is in a cycle whose probe failed / succeeded.
InFailedCycle(t) ==
    \E i \in Tasks : /\ ping_targets[i] = t
                     /\ running = i
                     /\ \A k \in 1..Len(frame[i].outcomes) : ~frame[i].outcomes[k].success

InSuccessfulCycle(t) ==
    \E i \in Tasks : /\ ping_targets[i] = t
                     /\ running = i
                     /\ \E k \in 1..Len(frame[i].outcomes) : frame[i].outcomes[k].success

FlaggedDown(t) == t \in DOMAIN failed_targets /\ failed_targets[t]

\* C1: a down alert is emitted only in a failed cycle that finds the target not
\* flagged Down, at most once per unbroken run of failed cycles; a recovered
\* alert only in a successful cycle that finds it flagged Down; the two kinds
\* alternate for a target, a down alert first.
C1_DownRecoveredAlternate ==
    [][\A t \in Targets :
        /\ (event'.kind = "down" /\ event'.target = t) =>
              /\ InFailedCycle(t)
              /\ ~FlaggedDown(t)
              /\ avail[t] # "down"
              /\ downInRun[t] = 0
        /\ (event'.kind = "recovered" /\ event'.target = t) =>
              /\ InSuccessfulCycle(t)
              /\ FlaggedDown(t)
              /\ avail[t] = "down"]_vars

----------------------------------------------------------------------------
(* The latency history. *)

\* the last n entries of s, all of s when it holds fewer
LastN(s, n) == IF Len(s) <= n THEN s ELSE SubSeq(s, Len(s) - n + 1, Len(s))

\* C4: a target's history never holds more than 100 entries, and after n
\* add_to_history calls it is the last min(n, 100) recorded values in insertion
\* order; a target never recorded has no history.
C4_HistoryIsLastHundred ==
    \A t \in Targets :
        IF t \in DOMAIN ping_history
        THEN /\ Len(ping_history[t]) <= 100
             /\ ping_history[t] = LastN(recorded[t], 100)
        ELSE recorded[t] = <<>>

\* more than 100 values were recorded for a target, the oldest are gone
C4_Witness ==
    \E t \in DOMAIN ping_history :
        /\ Len(recorded[t]) > 100
        /\ Len(ping_history[t]) = 100
        /\ ping_history[t][1] # recorded[t][1]

----------------------------------------------------------------------------
(* Anomaly detection: check_anomaly calls that read 10 samples or more. *)

\* the last check_anomaly call read a history of at least 10 samples
Evaluated == evalLog.target # "" /\ Len(evalLog.history) >= 10

\* current_latency = M * (1 + T/100) for the history and latency of the last call
AtThreshold ==
    LET sum == RatSum(evalLog.history)
    IN  evalLog.current[1] * sum[2] * Len(evalLog.history) * 100
            = sum[1] * evalLog.current[2] * (100 + anomaly_threshold)

\* current_latency > M * (1 + T/100) for the history and latency of the last call
OverThreshold == Exceeds(evalLog.current, evalLog.history)

\* C2: a check_anomaly call with at least 10 samples returns is_anomaly = True
\* exactly when its sample is over the threshold and is the anomaly_count-th
\* over-threshold sample in a row since the last reset; the counter is 0 right
\* after such a call; a sample at or below the threshold ends the run.
C2_FiresOnNthConsecutive ==
    Evaluated =>
        /\ evalLog.is_anomaly <=> (OverThreshold /\ evalLog.run + 1 = anomaly_count)
        /\ evalLog.is_anomaly => (evalLog.has_key /\ evalLog.after = 0)
        /\ ~OverThreshold => streak[evalLog.target] = 0
        /\ evalLog.before = evalLog.run

\* the third over-threshold sample in a row fires with anomaly_count = 3
C2_Witness ==
    /\ Evaluated
    /\ evalLog.is_anomaly
    /\ anomaly_count = 3
    /\ evalLog.run = 2

\* C6: in a check_anomaly call with at least 10 samples, a latency over
\* M * (1 + T/100) adds exactly 1 to the counter (which is then reset to 0 when
\* the call fires), and a latency at or below it sets the counter to 0 whatever
\* it was and returns is_anomaly = False; a latency equal to the threshold is
\* at or below it.
C6_CounterStep ==
    Evaluated =>
        /\ evalLog.has_key
        /\ (OverThreshold /\ ~evalLog.is_anomaly) => evalLog.after = evalLog.before + 1
        /\ (OverThreshold /\ evalLog.is_anomaly) =>
              (evalLog.before + 1 >= anomaly_count /\ evalLog.after = 0)
        /\ ~OverThreshold => (evalLog.after = 0 /\ ~evalLog.is_anomaly)
        /\ AtThreshold => ~OverThreshold

\* a latency equal to the threshold reset a counter that was above 0
C6_Witness ==
    /\ Evaluated
    /\ AtThreshold
    /\ evalLog.before > 0
    /\ evalLog.after = 0
    /\ ~evalLog.is_anomaly

----------------------------------------------------------------------------
(* The fleet-wide critical alert. *)

\* failed of total targets is a failure rate at or above failure_percentage
RateAtOrAbove(failed, total) == failed * 100 >= failure_percentage * total

\* the last completed check computed a rate at or above the threshold
LastCheckAtOrAbove ==
    fleetLog.done /\ RateAtOrAbove(fleetLog.failed_count, fleetLog.total)

\* C3: a critical alert is emitted only in a check that computes a failure rate
\* at or above failure_percentage while the alert state is not active, that is
\* in the first check or after a check below the threshold; a check that
\* follows a check at or above the threshold emits none; the step that clears
\* the alert state emits no event.
C3_CriticalOnRisingEdge ==
    [][/\ event'.kind = "critical" =>
              /\ fpc = "sleep"
              /\ RateAtOrAbove(failed_count, Len(ping_targets))
              /\ ~alert_sent
              /\ ~LastCheckAtOrAbove
       /\ (fpc = "sleep" /\ fleetLog' # fleetLog /\ LastCheckAtOrAbove
             /\ RateAtOrAbove(failed_count, Len(ping_targets))) =>
              (event' = NoEvent /\ alert_sent /\ alert_sent')
       /\ (alert_sent /\ ~alert_sent') =>
              /\ event' = NoEvent
              /\ delivery' = "none"
              /\ ~RateAtOrAbove(failed_count, Len(ping_targets))]_vars

\* a check at or above the threshold found the alert state active and stayed
\* silent, after a critical alert
C3_Witness ==
    /\ LastCheckAtOrAbove
    /\ fleetLog.was_active
    /\ ~fleetLog.fired
    /\ alert_sent

----------------------------------------------------------------------------
(* The result of ping_with_retry. *)

\* ping_with_retry of task i has returned
Returned(i) == pc[i] \in {"record", "checkDown"}

\* the attempts of a list of outcomes that succeeded
Successes(o) == {k \in 1..Len(o) : o[k].success}

\* the sum of the latencies of the successful attempts among the first n
RECURSIVE SuccessLatency(_, _)
SuccessLatency(o, n) ==
    IF n = 0 THEN 0
    ELSE SuccessLatency(o, n - 1) + (IF o[n].success THEN o[n].latency ELSE 0)

\* C5: for every retry_attempts >= 0 and every sequence of attempt outcomes,
\* ping_with_retry returns overall_success = True exactly when an attempt
\* succeeded, failed_attempts = the number of attempts that did not succeed
\* (between 0 and retry_attempts, and with the successes it adds up to the
\* attempts made), and avg_latency = the mean of the latencies of the
\* successful attempts, or 0 when there is none.
C5_ProbeResult ==
    \A i \in Tasks :
        Returned(i) =>
            LET o == frame[i].outcomes
                ok == Cardinality(Successes(o))
            IN  /\ Len(o) = retry_attempts
                /\ frame[i].success <=> ok > 0
                /\ frame[i].failures = Len(o) - ok
                /\ 0 <= frame[i].failures /\ frame[i].failures <= retry_attempts
                /\ IF ok = 0 THEN frame[i].latency = Zero
                   ELSE frame[i].latency[1] * ok
                            = frame[i].latency[2] * SuccessLatency(o, Len(o))

\* a probe of three attempts returned after a failure and two successes of
\* different latencies
C5_Witness ==
    \E i \in Tasks :
        /\ Returned(i)
        /\ frame[i].failures = 1
        /\ frame[i].success
        /\ frame[i].latency = <<25, 1>>

----------------------------------------------------------------------------
(* check_anomaly calls that read fewer than 10 samples. *)

\* the last check_anomaly call read a history of fewer than 10 samples
EvaluatedEarly == evalLog.target # "" /\ Len(evalLog.history) < 10

\* C7: a check_anomaly call that finds fewer than 10 samples in the target's
\* history returns (False, 0.0) whatever the latency and the counter, and
\* leaves the anomaly counter as it was; no anomaly alert is emitted for a
\* target whose history holds fewer than 10 samples.
C7_TooFewSamples ==
    /\ EvaluatedEarly =>
          /\ ~evalLog.is_anomaly
          /\ evalLog.avg_latency = Zero
          /\ evalLog.has_key = evalLog.had_key
          /\ evalLog.after = evalLog.before
    /\ event.kind = "anomaly" =>
          /\ Len(Get(ping_history, event.target, <<>>)) >= 10
          /\ Len(recorded[event.target]) >= 10

\* a monitor cycle evaluated a latency of 40 ms against 9 samples of 10 ms
\* and emitted nothing
C7_Witness ==
    /\ EvaluatedEarly
    /\ Len(evalLog.history) = 9
    /\ evalLog.current = <<40, 1>>
    /\ \E i \in Tasks : pc[i] = "checkRecovered" /\ ping_targets[i] = evalLog.target
    /\ event = NoEvent

----------------------------------------------------------------------------
(* Errors raised inside an iteration of monitor_target. *)

\* task i is inside ping_with_retry
Probing(i) == pc[i] \in {"attempt", "retrySleep", "result"}

\* no more iteration can start: the flag is set or the cycles are used up
Stopped == shutdown_requested \/ cycles >= budget

\* C8: an error raised by a step of an iteration is caught in that iteration,
\* the task goes on to asyncio.sleep(ping_interval) and then to its next
\* iteration; no task ends unless shutdown was requested; every target is
\* probed again and again for as long as iterations may start.
C8_ErrorsAreCaught ==
    /\ [][\A i \in Tasks :
            /\ (faults' > faults /\ running = i) =>
                  (pc'[i] = "sleep" /\ running' = 0)
            /\ (pc'[i] = "done" /\ pc[i] # "done") => shutdown_requested]_vars
    /\ \A i \in 1..Cardinality(Targets) :
          []<>(i \notin Tasks \/ Probing(i) \/ Stopped)

\* a task whose iteration raised an error is probing its target again
C8_Witness ==
    /\ Len(ping_targets) = 1
    /\ faults > 0
    /\ pc[1] = "attempt"
    /\ running = 1
    /\ ~shutdown_requested

----------------------------------------------------------------------------
(* Shutdown. *)

\* task i is between the start of an iteration and its asyncio.sleep
InCycle(i) == pc[i] \notin {"start", "sleep", "done"}

AllExited == fpc = "done" /\ \A i \in Tasks : pc[i] = "done"

\* C9: each loop reads the shutdown flag once per iteration, at its top; once
\* request_shutdown has set the flag no monitor task starts a probe cycle, a
\* cycle in progress goes on to its end, and every monitor task and the fleet
\* task eventually exit.
C9_ShutdownStopsLoops ==
    /\ [][/\ cycles' > cycles => ~shutdown_requested
          /\ \A i \in Tasks :
                /\ (pc'[i] = "attempt" /\ pc[i] \in {"start", "sleep"}) =>
                      ~shutdown_requested
                /\ (pc'[i] = "done" /\ pc[i] # "done") =>
                      (shutdown_requested /\ pc[i] \in {"start", "sleep"})
          /\ (fpc' = "done" /\ fpc # "done") => shutdown_requested]_vars
    /\ \A i \in 1..Cardinality(Targets) :
          (i \in Tasks /\ shutdown_requested /\ InCycle(i)) ~>
              (i \in Tasks /\ pc[i] = "sleep")
    /\ shutdown_requested ~> AllExited

\* the flag was set while a task was sending an alert; the task finished its
\* cycle and exited, and so did every loop
C9_Witness ==
    /\ AllExited
    /\ shutdown_requested
    /\ \E t \in Targets : avail[t] = "down" /\ FlaggedDown(t)
    /\ cycles < budget

----------------------------------------------------------------------------
(* The statistics query. *)

\* C10: get_latency_statistics leaves the latency histories, the anomaly
\* counters, the Down flags, the latest latencies and the fleet alert state as
\* they were, the set of keys of each dictionary included.
C10_StatisticsMutateNothing ==
    [][GetStatistics =>
          /\ ping_history' = ping_history
          /\ DOMAIN ping_history' = DOMAIN ping_history
          /\ UNCHANGED <<anomaly_counters, failed_targets, latest_latency,
                         alert_sent>>]_vars

----------------------------------------------------------------------------
(* start() and the startup alert. *)

\* C11: start() never ends with an error raised by the startup notification:
\* once the bot is ready it creates the monitor and fleet tasks, hands one
\* startup event with the number of targets to the sink and waits in gather,
\* the tasks scheduled until shutdown is requested.
C11_StartKeepsTasksRunning ==
    /\ spc # "raised"
    /\ spawned = "cancelled" => shutdown_requested
    /\ spc \in {"startupSend", "gather"} => spawned = "scheduled"
    /\ spc = "startupSend" => event.kind = "startup" /\ event.n = Len(ping_targets)

----------------------------------------------------------------------------
(* Five cycles of 40 ms after ten samples of 20 ms. *)

\* the target's samples are the ten of 20 ms and then k of 40 ms
AfterForty(k) == recorded["a"] = Twenty(10) \o Forty(k)

\* C12: with anomaly_count 5 and threshold 30 %, after 10 samples of 20 ms,
\* the first four cycles of 40 ms emit no anomaly alert, the 5th emits one,
\* and that alert carries the rolling mean 20 ms.
C12_FifthCycleCarriesPriorMean ==
    /\ \A k \in 1..4 : AfterForty(k) => event.kind # "anomaly"
    /\ AfterForty(5) /\ pc[1] \in {"anomalyAlert", "checkRecovered"}
          => frame[1].is_anomaly
    /\ AfterForty(5) /\ event.kind = "anomaly" => event.b = RatOfInt(20)

----------------------------------------------------------------------------
(* Four targets and the critical alert. *)

\* the step is a fleet check of four targets (the monitor tasks stand still)
FleetCheckStep ==
    /\ Len(ping_targets) = 4
    /\ fpc = "sleep"
    /\ pc' = pc
    /\ frame' = frame

\* C13 as stated: with 4 targets and failure_percentage 50 a critical alert is
\* emitted at the moment the 2nd target is flagged Down, none while two stay
\* Down, and one more only after the rate was below 50 % and is back at it.
C13_CriticalWhenSecondGoesDown ==
    [][Len(ping_targets) = 4 =>
          /\ (failed_count < 2 /\ failed_count' >= 2) => event'.kind = "critical"
          /\ (failed_count >= 2 /\ failed_count' >= 2 /\ alert_sent) =>
                event'.kind # "critical"
          /\ event'.kind = "critical" => ~LastCheckAtOrAbove]_vars

\* C13, amended: with 4 targets and failure_percentage 50 a critical alert is
\* emitted by exactly the fleet checks that find 2 targets or more flagged
\* Down when no check came before or the last one found fewer than 2: it
\* carries the counts of that check; the checks that follow while 2 or more
\* are flagged emit none; no other step emits one.
C13_CriticalAtFirstCheckAtHalf ==
    [][Len(ping_targets) = 4 =>
          /\ FleetCheckStep =>
                /\ event'.kind = "critical" <=>
                      (failed_count >= 2 /\ ~LastCheckAtOrAbove)
                /\ event'.kind = "critical" =>
                      /\ event'.n = failed_count
                      /\ event'.a = RatOfInt(4)
                      /\ event'.b = Rat(failed_count * 100, 4)
                      /\ fleetLog'.alerts = fleetLog.alerts + 1
                /\ event'.kind # "critical" => fleetLog'.alerts = fleetLog.alerts
          /\ ~FleetCheckStep =>
                (event'.kind # "critical" /\ fleetLog' = fleetLog)]_vars

\* the second critical alert of a run: two targets were flagged, a check saw
\* fewer than two, and two are flagged again
C13_Witness ==
    /\ Len(ping_targets) = 4
    /\ event.kind = "critical"
    /\ fleetLog.alerts = 2
    /\ fleetLog.failed_count = 2

----------------------------------------------------------------------------
(* Targets that always answer, each with one latency. *)

\* every probe cycle so far succeeded, and all cycles of a target measured
\* the same latency
AllCyclesAlike ==
    /\ \A i \in Tasks : pc[i] \notin {"checkDown", "downAlert", "downSend"}
    /\ \A t \in Targets :
          /\ avail[t] = "none"
          /\ \A j, k \in 1..Len(recorded[t]) : recorded[t][j] = recorded[t][k]

----------------------------------------------------------------------------
(* A down alert and the cycle after it. *)

\* task i is at the end of a cycle whose ping_with_retry returned success
EndsSuccessfulCycle(i) ==
    /\ pc[i] \in {"checkRecovered", "recoveredAlert", "recoveredSend"}
    /\ pc'[i] = "sleep"

\* C15: a down alert is emitted only in a cycle whose retry_attempts attempts
\* all failed, and carries failed_attempts = retry_attempts; a successful
\* cycle of a target whose last alert is a down alert emits the recovered
\* alert, and the target is not flagged Down when that cycle ends.
C15_DownThenRecovered ==
    [][/\ event'.kind = "down" =>
              \E i \in Tasks :
                  /\ running = i
                  /\ pc[i] = "downAlert"
                  /\ ping_targets[i] = event'.target
                  /\ Len(frame[i].outcomes) = retry_attempts
                  /\ \A k \in 1..Len(frame[i].outcomes) : ~frame[i].outcomes[k].success
                  /\ event'.n = retry_attempts
       /\ \A i \in Tasks :
              EndsSuccessfulCycle(i) =>
                  /\ avail'[ping_targets[i]] # "down"
                  /\ ~FlaggedDown(ping_targets[i])']_vars

----------------------------------------------------------------------------
(* The numbers of a fleet check. *)

\* the configured targets (the entries of the list) that are flagged Down
FlaggedEntries == {k \in 1..Len(ping_targets) : FlaggedDown(ping_targets[k])}

\* C16: whenever a fleet check can run, the failure rate it computes is the
\* number of configured targets flagged Down over the number of configured
\* targets, times 100, with 0 <= failed_count <= total and 0 <= rate <= 100;
\* a critical alert carries the failed_count, total and rate of its check;
\* with no configured target no alert is emitted and alert_sent is unchanged.
C16_FailureRateOfConfiguredTargets ==
    [][/\ (fpc = "sleep" /\ running = 0 /\ Len(ping_targets) > 0) =>
              /\ failed_count = Cardinality(FlaggedEntries)
              /\ 0 <= failed_count
              /\ failed_count <= Len(ping_targets)
              /\ failure_rate(failed_count, Len(ping_targets))
                    = Rat(Cardinality(FlaggedEntries) * 100, Len(ping_targets))
              /\ RatLE(Zero, failure_rate(failed_count, Len(ping_targets)))
              /\ RatLE(failure_rate(failed_count, Len(ping_targets)), RatOfInt(100))
       /\ event'.kind = "critical" =>
              /\ event'.n = failed_count
              /\ event'.a = RatOfInt(Len(ping_targets))
              /\ event'.b = failure_rate(failed_count, Len(ping_targets))
       /\ Len(ping_targets) = 0 =>
              (event'.kind # "critical" /\ alert_sent' = alert_sent)]_vars

----------------------------------------------------------------------------
(* One task per target. *)

\* C17: at most one probe cycle of a target is in progress at any time, the
\* tasks of two entries of the list never share a target, a step that writes
\* failed_targets leaves alert_sent alone, and alert_sent is written only by
\* steps of the fleet task.
C17_OneCyclePerTarget ==
    [][/\ \A i, j \in Tasks :
              (InCycle(i)' /\ InCycle(j)' /\ ping_targets[i] = ping_targets[j])
                  => i = j
       /\ failed_targets' # failed_targets => fleet_vars' = fleet_vars
       /\ alert_sent' # alert_sent =>
              (pc' = pc /\ frame' = frame /\ failed_targets' = failed_targets)]_vars

----------------------------------------------------------------------------
(* Where a monitor task gives up the event loop. *)

\* task i is about to make a probe attempt
AtProbe(i) == pc[i] = "attempt" /\ frame[i].attempt < retry_attempts

\* C18: a monitor task gives up the event loop at the probe call, at the
\* 0.5 s delay between attempts and at the interval sleep, and nowhere else:
\* it does not hold the loop while a probe attempt is to be made, and a step
\* in which it releases the loop leaves it in one of the two sleeps (so not
\* between the read and the write of failed_targets).
C18_SuspensionPoints ==
    [][\A i \in Tasks :
          /\ AtProbe(i)' => running' # i
          /\ (running = i /\ running' # i) => pc'[i] \in {"retrySleep", "sleep"}]_vars

----------------------------------------------------------------------------
(* Alerts that are not delivered. *)

\* the step ends a send_alert call that delivered nothing: channel.send
\* raised, or there is no channel
Undelivered == delivery' \in {"failed", "dropped"}

\* C19: a step in which the delivery of an alert fails (channel.send raises,
\* or no channel) still sets failed_targets after a down alert and clears it
\* after a recovered alert, and the task goes on to its interval sleep (to
\* the recovery check after an anomaly alert); no down alert is emitted for a
\* target that is flagged Down, so the alert is not sent again while the
\* episode lasts; a critical alert that is not delivered still sets
\* alert_sent and the fleet task goes on to its next sleep.
C19_DeliveryFailureIsSwallowed ==
    [][/\ Undelivered =>
              /\ \A i \in Tasks :
                    /\ (pc[i] \in {"downAlert", "downSend"} /\ pc'[i] # pc[i]) =>
                          (FlaggedDown(ping_targets[i])' /\ pc'[i] = "sleep")
                    /\ (pc[i] \in {"recoveredAlert", "recoveredSend"}
                           /\ pc'[i] # pc[i]) =>
                          (~FlaggedDown(ping_targets[i])' /\ pc'[i] = "sleep")
                    /\ (pc[i] \in {"anomalyAlert", "anomalySend"} /\ pc'[i] # pc[i]) =>
                          pc'[i] = "checkRecovered"
              /\ ((fpc = "send" /\ fpc' # fpc) \/ event'.kind = "critical") =>
                    (alert_sent' /\ fpc' = fleet_loop)
       /\ event'.kind = "down" => ~FlaggedDown(event'.target)
       /\ \A i \in Tasks : (pc'[i] = "done" /\ pc[i] # "done") => shutdown_requested
       /\ (fpc' = "done" /\ fpc # "done") => shutdown_requested]_vars

\* channel.send raised for the down alert of the only target: the target is
\* flagged Down and its task sleeps until the next cycle
C19_Witness ==
    /\ ping_targets = <<"a">>
    /\ channel
    /\ delivery = "failed"
    /\ ~fleetLog.done
    /\ avail["a"] = "down"
    /\ FlaggedDown("a")
    /\ pc[1] = "sleep"

----------------------------------------------------------------------------
(* The attempts and the waits of ping_with_retry. *)

\* the step makes a probe attempt of task i
MakesAttempt(i) == Len(frame'[i].outcomes) = Len(frame[i].outcomes) + 1

\* C20: the attempts of a ping_with_retry call are made one after another,
\* the k-th after k - 1 attempts and k - 1 waits of 0.5 s; an attempt that is
\* not the last is followed by a wait whether it failed or not, the last is
\* followed by none, and a wait is followed by the next attempt; the call
\* returns after retry_attempts attempts and, when it made any,
\* retry_attempts - 1 waits.
C20_AttemptsAndWaits ==
    [][\A i \in Tasks :
          /\ MakesAttempt(i) =>
                /\ pc[i] = "attempt"
                /\ running = i
                /\ Len(frame[i].outcomes) = frame[i].attempt
                /\ frame'[i].attempt = frame[i].attempt
                /\ IF Len(frame'[i].outcomes) < retry_attempts
                      THEN pc'[i] = "retrySleep" /\ running' = 0
                      ELSE pc'[i] = "result" /\ running' = i
          /\ (pc[i] = "retrySleep" /\ pc'[i] # pc[i]) =>
                /\ pc'[i] = "attempt"
                /\ frame'[i].attempt = frame[i].attempt + 1
                /\ frame'[i].attempt < retry_attempts
                /\ frame'[i].outcomes = frame[i].outcomes
          /\ pc'[i] = "result" =>
                /\ Len(frame'[i].outcomes) = retry_attempts
                /\ retry_attempts >= 1 => frame'[i].attempt = retry_attempts - 1
                /\ retry_attempts = 0 => frame'[i].attempt = 0]_vars

\* a call of three attempts has returned after two waits, its first attempt
\* having failed and its last one succeeded
C20_Witness ==
    /\ retry_attempts = 3
    /\ pc[1] = "result"
    /\ Len(frame[1].outcomes) = 3
    /\ frame[1].attempt = 2
    /\ ~frame[1].outcomes[1].success
    /\ frame[1].outcomes[3].success

----------------------------------------------------------------------------
(* What a failed cycle leaves alone. *)

\* the step is one of task i
Moves(i) == pc'[i] # pc[i]

\* C21: a step of a monitor task whose cycle has not returned success from
\* ping_with_retry (the attempts, and the whole of a failed cycle) leaves the
\* latency histories, the anomaly counters, the run of over-threshold samples
\* and the latest latencies as they are; no history ever holds the latency 0
\* of a failed cycle.
C21_FailedCycleRecordsNothing ==
    [][/\ \A i \in Tasks :
              (Moves(i) /\ ~frame[i].success) =>
                  /\ ping_history' = ping_history
                  /\ anomaly_counters' = anomaly_counters
                  /\ latest_latency' = latest_latency
                  /\ streak' = streak
                  /\ recorded' = recorded
       /\ \A t \in DOMAIN ping_history' :
              \A k \in 1..Len(ping_history'[t]) : ping_history'[t][k] # Zero]_vars

\* after two samples of 40 ms the cycle of the target has failed: the target
\* is flagged Down and its counter is still 2
C21_Witness ==
    /\ AfterForty(2)
    /\ pc[1] = "sleep"
    /\ FlaggedDown("a")
    /\ avail["a"] = "down"
    /\ anomaly_counters["a"] = 2
    /\ latest_latency["a"] = RatOfInt(40)
    /\ ping_history["a"] = recorded["a"]

----------------------------------------------------------------------------
(* The range of the anomaly counter. *)

\* C22: with anomaly_count >= 1, in every state (check_anomaly runs without
\* interruption, so every state lies between two of its calls) each counter
\* is at least 0 and below anomaly_count; an anomaly alert carries
\* consecutive_count = anomaly_count, the counter of its target being back
\* at 0.
C22_CounterBelowCount ==
    anomaly_count >= 1 =>
        /\ \A t \in DOMAIN anomaly_counters :
              /\ 0 <= anomaly_counters[t]
              /\ anomaly_counters[t] < anomaly_count
        /\ event.kind = "anomaly" =>
              /\ event.n = anomaly_count
              /\ anomaly_counters[event.target] = 0

\* the counter is one short of anomaly_count = 5 after four samples of 40 ms
C22_Witness ==
    /\ anomaly_count = 5
    /\ AfterForty(4)
    /\ pc[1] = "sleep"
    /\ anomaly_counters["a"] = 4

----------------------------------------------------------------------------
(* The statistics and the fleet check. *)

\* C23: in every state get_latency_statistics returns one entry per configured
\* target, offline exactly when the target is flagged Down, online_count is
\* the number of online entries and total_count the number of configured
\* targets, and online_count plus the failed_count of a fleet check made in
\* the same state is total_count.
C23_StatisticsAgreeWithFleetCheck ==
    LET stats == get_latency_statistics
    IN  /\ Len(stats.targets) = Len(ping_targets)
        /\ \A k \in 1..Len(ping_targets) :
              /\ stats.targets[k].target = ping_targets[k]
              /\ stats.targets[k].status = "offline" <=> FlaggedDown(ping_targets[k])
              /\ stats.targets[k].status \in {"online", "offline"}
        /\ stats.online_count =
              Cardinality({k \in 1..Len(ping_targets) : ~FlaggedDown(ping_targets[k])})
        /\ stats.total_count = Len(ping_targets)
        /\ stats.online_count + failed_count = stats.total_count

----------------------------------------------------------------------------
(* start() and a bot that does not connect. *)

\* C24: when start_bot has ended with an error, start() leaves
\* wait_until_ready in the end: the monitor tasks are started or start() ends
\* with a failure.
C24_StartLeavesTheWait ==
    (bot = "failed") ~> (spawned = "scheduled" \/ spc \in {"raised", "gather"})

====
